---- MODULE Spec2Model ----
(***************************************************************************)
(* State-machine model of reana_workflow_engine_yadage/cli.py: the click   *)
(* option callbacks (load_json, load_yadage_operational_options) and the   *)
(* command run_yadage_workflow, one action per statement that can raise.   *)
(*                                                                         *)
(* Strings are sequences of tokens; the token "/" is the path separator.   *)
(* A Python exception is the sequence of tokens of its message; the empty  *)
(* sequence stands for "no exception".                                     *)
(*                                                                         *)
(* Every call of a collaborator (backend setup, publisher construction,    *)
(* spec loading, file reading, connectivity check, steering context,       *)
(* publish_workflow_status) either returns or raises an Exception; what    *)
(* follows a raise is what cli.py does with it.  The variable published    *)
(* records every publish_workflow_status call made, in order, with the     *)
(* state, the logs argument and whether the call raised.                   *)
(***************************************************************************)
EXTENDS Integers, Sequences, FiniteSets, TLC

\* ------------------------------------------------------------------ bounds
MaxInitFiles == 2
MaxVal == 2

\* ------------------------------------------------------- values and inputs
Keys == {"x", "y"}
Vals == 1..MaxVal

\* Python dicts with string keys: functions from a subset of Keys to Vals.
Mappings == UNION {[D -> Vals] : D \in SUBSET Keys}
EmptyMapping == [k \in {} |-> 1]

NoError == <<>>

SHARED_VOLUME_PATH == <<"/", "var", "/", "reana">>
REMOTE_PREFIX == <<"github:">>

StartsWith(s, p) == Len(s) >= Len(p) /\ SubSeq(s, 1, Len(p)) = p

\* (variant: the second component is appended also when it is absolute)
PathJoinAlwaysAppends(a, b) ==
    IF a = <<>> \/ a[Len(a)] = "/" THEN a \o b
    ELSE a \o <<"/">> \o b

\* os.path.join(a, b) for two components (posixpath.join).
PathJoin(a, b) ==
    IF StartsWith(b, <<"/">>) THEN b
    ELSE IF a = <<>> \/ a[Len(a)] = "/" THEN a \o b
    ELSE a \o <<"/">> \o b

\* "{0}/{1}".format(SHARED_VOLUME_PATH, workflow_workspace); has_ws = FALSE is
\* the value None, which format() renders as the text None.
WorkspacePath(has_ws, ws) ==
    SHARED_VOLUME_PATH \o <<"/">> \o (IF has_ws THEN ws ELSE <<"None">>)

\* ------------------------------------------------------------- load_json
\* An option value of the command line: given or not (None), the number of
\* characters in front of the base64 text, and the payload: what the
\* base64 text decodes to (enc = "ok") or where decoding it fails.
Encodings == {"ok", "bad_b64", "bad_utf8", "bad_json"}

\* (variant: text that is no JSON is not rejected)
LoadJsonErrorLenient(value) ==
    IF ~value.given THEN <<"'NoneType' object is not subscriptable">>
    ELSE IF value.lead # 1 THEN <<"Incorrect padding">>
    ELSE IF value.payload.enc = "bad_b64" THEN <<"Incorrect padding">>
    ELSE IF value.payload.enc = "bad_utf8" THEN <<"'utf-8' codec can't decode">>
    ELSE NoError

\* The exception load_json raises on value, NoError if it returns.
LoadJsonError(value) ==
    IF ~value.given THEN <<"'NoneType' object is not subscriptable">>
    ELSE IF value.lead # 1 THEN <<"Incorrect padding">>
    ELSE IF value.payload.enc = "bad_b64" THEN <<"Incorrect padding">>
    ELSE IF value.payload.enc = "bad_utf8" THEN <<"'utf-8' codec can't decode">>
    ELSE IF value.payload.enc = "bad_json" THEN <<"Expecting value">>
    ELSE NoError

\* The object load_json returns when it does not raise.
LoadJson(value) == value.payload

\* ---------------------------------------- load_yadage_operational_options
FileNames == <<"a.yaml", "b.yaml", "c.yaml", "d.yaml">>
InitFileLists == {[i \in 1..n |-> <<FileNames[i]>>] : n \in 0..MaxInitFiles}

NoOptions ==
    [keys |-> {}, toplevel |-> <<>>, initdir |-> <<>>, initfiles |-> <<>>]

\* dict.get(key, default) on the decoded options.
OptGet(opts, key, val, default) == IF key \in opts.keys THEN val ELSE default

OptionsError(value) ==
    IF LoadJsonError(value) # NoError THEN LoadJsonError(value)
    ELSE IF ~LoadJson(value).isdict
         THEN <<"object has no attribute 'get'">>
    ELSE NoError

ResolveToplevel(workflow_workspace, toplevel) ==
    IF ~StartsWith(toplevel, REMOTE_PREFIX)
    THEN PathJoin(workflow_workspace, toplevel)
    ELSE toplevel

\* The dict the callback returns: the decoded options with toplevel, initdir
\* and initfiles replaced by paths joined under the workspace of ctx.params.
ResolveOptions(has_ws, ws, o) ==
    LET workflow_workspace == WorkspacePath(has_ws, ws) IN
    [keys |-> o.keys \cup {"toplevel", "initdir", "initfiles"},
     toplevel |-> ResolveToplevel(workflow_workspace,
                                  OptGet(o, "toplevel", o.toplevel, <<>>)),
     initdir |-> PathJoin(workflow_workspace,
                          OptGet(o, "initdir", o.initdir, <<>>)),
     initfiles |-> LET fs == OptGet(o, "initfiles", o.initfiles, <<>>) IN
                   [i \in 1..Len(fs) |-> PathJoin(workflow_workspace, fs[i])]]

\* ----------------------------------------------------------- input sets
WorkspaceNames == {<<"ws">>}
WorkflowFiles == {<<"wf.yaml">>}

ParamPayloads ==
    {[enc |-> e, isdict |-> FALSE, d |-> EmptyMapping] :
        e \in Encodings}
    \cup {[enc |-> "ok", isdict |-> TRUE, d |-> m] :
        m \in {mm \in Mappings : Cardinality(DOMAIN mm) <= 1}}

ParamValues ==
    {[given |-> FALSE, lead |-> 1,
      payload |-> [enc |-> "ok", isdict |-> FALSE, d |-> EmptyMapping]]}
    \cup {[given |-> TRUE, lead |-> 0,
           payload |-> [enc |-> "ok", isdict |-> TRUE, d |-> EmptyMapping]]}
    \cup {[given |-> TRUE, lead |-> 1, payload |-> p] : p \in ParamPayloads}

OptionObjects ==
    {[keys |-> {}, toplevel |-> <<>>, initdir |-> <<>>, initfiles |-> <<>>],
     [keys |-> {"toplevel", "accept_metadir"}, toplevel |-> <<"wf.yaml">>,
      initdir |-> <<>>, initfiles |-> <<>>],
     [keys |-> {"toplevel", "initdir"},
      toplevel |-> <<"github:", "org", "/", "repo">>,
      initdir |-> <<"in">>, initfiles |-> <<>>],
     [keys |-> {"toplevel", "initdir", "initfiles"},
      toplevel |-> <<"/", "etc", "/", "wf.yaml">>,
      initdir |-> <<"/", "tmp">>,
      initfiles |-> << <<"/", "etc", "/", "passwd">> >>],
     [keys |-> {"toplevel", "initdir", "initfiles"},
      toplevel |-> <<"..", "/", "other", "/", "wf.yaml">>,
      initdir |-> <<"..">>,
      initfiles |-> << <<"..", "/", "other", "/", "in.yaml">> >>]}
    \cup {[keys |-> {"initfiles"}, toplevel |-> <<>>, initdir |-> <<>>,
           initfiles |-> l] : l \in InitFileLists}

OptionPayloads ==
    {[enc |-> e, isdict |-> FALSE, obj |-> NoOptions] : e \in Encodings}
    \cup {[enc |-> "ok", isdict |-> TRUE, obj |-> o] : o \in OptionObjects}

OptionValues ==
    {[given |-> FALSE, lead |-> 1,
      payload |-> [enc |-> "ok", isdict |-> FALSE, obj |-> NoOptions]]}
    \cup {[given |-> TRUE, lead |-> 0,
           payload |-> [enc |-> "ok", isdict |-> TRUE, obj |-> NoOptions]]}
    \cup {[given |-> TRUE, lead |-> 1, payload |-> p] : p \in OptionPayloads}

\* The order in which click processes the three options: the order they have
\* on the command line; the options the command line does not have come
\* after the others, in the order of their declaration.
OptionNames == {"workflow_workspace", "workflow_parameters", "operational_options"}
ArgOrders ==
    {s \in [1..3 -> OptionNames] : \A a \in OptionNames : \E i \in 1..3 : s[i] = a}

Position(s, a) == CHOOSE i \in 1..Len(s) : s[i] = a

ProcessingOrder(s, args) ==
    LET absent == {"workflow_parameters" : x \in {1} \cap
                        (IF args.workflow_parameters.given THEN {} ELSE {1})}
                  \cup {"operational_options" : x \in {1} \cap
                        (IF args.operational_options.given THEN {} ELSE {1})}
    IN /\ \A a \in absent, b \in OptionNames \ absent :
            Position(s, b) < Position(s, a)
       /\ absent = {"workflow_parameters", "operational_options"} =>
            Position(s, "workflow_parameters") < Position(s, "operational_options")

\* What yaml.safe_load(open(initfile)) does: open raises, the parser raises,
\* the document is no mapping, or it is a mapping.
FileReads ==
    {[kind |-> k, d |-> EmptyMapping] : k \in {"missing", "unparsable", "notmapping"}}
    \cup {[kind |-> "mapping", d |-> m] : m \in Mappings}

FileReadError(r) ==
    IF r.kind = "missing" THEN <<"No such file or directory">>
    ELSE IF r.kind = "unparsable" THEN <<"could not parse the document">>
    ELSE IF r.kind = "notmapping" THEN <<"argument after ** must be a mapping">>
    ELSE NoError

\* dict.update: the keys of e are set in d, the others keep their value.
\* (variant: the keys already in d keep their value)
DictUpdateKeepsOld(d, e) ==
    [k \in DOMAIN d \cup DOMAIN e |-> IF k \in DOMAIN d THEN d[k] ELSE e[k]]

DictUpdate(d, e) ==
    [k \in DOMAIN d \cup DOMAIN e |-> IF k \in DOMAIN e THEN e[k] ELSE d[k]]

\* The numeric states of the status channel.
RUNNING == 1
FINISHED == 2
FAILED == 3

VARIABLES
    argv,          \* the command line of the invocation
    fs,            \* the paths that exist as workflow files
    todo,          \* the options click has still to process, in order
    ctx_params,    \* click's ctx.params: the values processed so far
    pc,            \* position of the invocation
    environ,       \* the names set in os.environ
    umask_set,     \* os.umask(REANA_WORKFLOW_UMASK) was called
    cap_backend,   \* the backend was set up
    publisher,     \* "unbound", or "ok" once constructed
    workflow_json, \* yadageschemas.load returned the workflow
    spec_loads,    \* the yadageschemas.load calls made: spec and toplevel
    idx,           \* the init file the merge loop is at
    loaded,        \* the init files read so far: path and mapping, in order
    initdata,      \* the dict initdata
    engine,        \* what was done with the engine, in order
    engine_initdata, \* the initdata steering_ctx was given
    published,     \* the publish_workflow_status calls made, in order
    logged,        \* the log records written, in order
    exc,           \* the exception the except clause handles
    raised         \* the exception that left the invocation

vars == <<argv, fs, todo, ctx_params, pc, environ, umask_set, cap_backend,
          publisher, workflow_json, spec_loads, idx, loaded, initdata, engine,
          engine_initdata, published, logged, exc, raised>>

Init ==
    /\ argv \in [workflow_uuid : {<<"uuid">>},
                 workflow_workspace : WorkspaceNames,
                 workflow_file : WorkflowFiles,
                 workflow_parameters : ParamValues,
                 operational_options : OptionValues]
    /\ fs \in SUBSET {PathJoin(WorkspacePath(TRUE, w), f) :
                        w \in WorkspaceNames, f \in WorkflowFiles}
    /\ todo \in {s \in ArgOrders : ProcessingOrder(s, argv)}
    /\ ctx_params = [has_ws |-> FALSE, workflow_workspace |-> <<>>,
                     workflow_parameters |-> [isdict |-> FALSE, d |-> EmptyMapping],
                     operational_options |-> NoOptions]
    /\ pc = "parse"
    /\ environ = {}
    /\ umask_set = FALSE
    /\ cap_backend = FALSE
    /\ publisher = "unbound"
    /\ workflow_json = FALSE
    /\ spec_loads = <<>>
    /\ idx = 1
    /\ loaded = <<>>
    /\ initdata = EmptyMapping
    /\ engine = <<>>
    /\ engine_initdata = EmptyMapping
    /\ published = <<>>
    /\ logged = <<>>
    /\ exc = NoError
    /\ raised = NoError


\* ------------------------------------------------------ option processing
\* --workflow-workspace has no callback: click stores the value.
ParseWorkflowWorkspace ==
    /\ pc = "parse" /\ todo # <<>> /\ Head(todo) = "workflow_workspace"
    /\ ctx_params' = [ctx_params EXCEPT !.has_ws = TRUE,
                          !.workflow_workspace = argv.workflow_workspace]
    /\ todo' = Tail(todo)
    /\ UNCHANGED <<argv, fs, pc, environ, umask_set, cap_backend, publisher,
                   workflow_json, spec_loads, idx, loaded, initdata, engine,
                   engine_initdata, published, logged, exc, raised>>

\* --workflow-parameters: callback load_json.  An exception of the callback
\* leaves the invocation before the command body is called.
ParseWorkflowParameters ==
    /\ pc = "parse" /\ todo # <<>> /\ Head(todo) = "workflow_parameters"
    /\ LET value == argv.workflow_parameters IN
       IF LoadJsonError(value) # NoError
       THEN /\ raised' = LoadJsonError(value)
            /\ pc' = "done"
            /\ UNCHANGED <<ctx_params, todo>>
       ELSE /\ ctx_params' = [ctx_params EXCEPT !.workflow_parameters =
                                [isdict |-> LoadJson(value).isdict,
                                 d |-> LoadJson(value).d]]
            /\ todo' = Tail(todo)
            /\ UNCHANGED <<pc, raised>>
    /\ UNCHANGED <<argv, fs, environ, umask_set, cap_backend, publisher,
                   workflow_json, spec_loads, idx, loaded, initdata, engine,
                   engine_initdata, published, logged, exc>>

\* --operational-options: callback load_yadage_operational_options, which
\* reads the workspace from the options click has processed before this one.
ParseOperationalOptions ==
    /\ pc = "parse" /\ todo # <<>> /\ Head(todo) = "operational_options"
    /\ LET value == argv.operational_options IN
       IF OptionsError(value) # NoError
       THEN /\ raised' = OptionsError(value)
            /\ pc' = "done"
            /\ UNCHANGED <<ctx_params, todo>>
       ELSE /\ ctx_params' = [ctx_params EXCEPT !.operational_options =
                                ResolveOptions(ctx_params.has_ws,
                                               ctx_params.workflow_workspace,
                                               LoadJson(value).obj)]
            /\ todo' = Tail(todo)
            /\ UNCHANGED <<pc, raised>>
    /\ UNCHANGED <<argv, fs, environ, umask_set, cap_backend, publisher,
                   workflow_json, spec_loads, idx, loaded, initdata, engine,
                   engine_initdata, published, logged, exc>>

\* Every option is processed: click calls the command body.
Invoke ==
    /\ pc = "parse" /\ todo = <<>>
    /\ pc' = "start"
    /\ UNCHANGED <<argv, fs, todo, ctx_params, environ, umask_set, cap_backend,
                   publisher, workflow_json, spec_loads, idx, loaded, initdata, engine,
                   engine_initdata, published, logged, exc, raised>>

\* --------------------------------------------------- run_yadage_workflow
\* The local workflow_workspace of the body.
RunWorkspace == WorkspacePath(TRUE, ctx_params.workflow_workspace)

LogRecord(level, text) == [level |-> level, text |-> text]
\* One call of publisher.publish_workflow_status: the state, the logs
\* argument, and whether the call raised.
StatusCall(status, logs, outcome) ==
    [status |-> status, logs |-> logs, raised |-> (outcome = "raise")]

\* A call of an external collaborator returns or raises.
Outcomes == {"ok", "raise"}

\* The messages of the exceptions the collaborators raise.
BackendError == <<"backend setup failed">>
PublisherError == <<"publisher construction failed">>
SpecError == <<"workflow spec could not be loaded">>
ParametersError == <<"'NoneType' object is not iterable">>
ConnectionError == <<"job controller is unreachable">>
EnterError == <<"steering context could not be set up">>
AdageError == <<"adage_argument failed">>
ExitError == <<"workflow execution failed">>
PublishError == <<"status could not be published">>

SetRunContext ==
    /\ pc = "start"
    /\ logged' = Append(logged, LogRecord("info", <<"getting socket..">>))
    /\ environ' = environ \cup {"workflow_uuid", "workflow_workspace"}
    /\ umask_set' = TRUE
    /\ pc' = "backend"
    /\ UNCHANGED <<argv, fs, todo, ctx_params, cap_backend, publisher,
                   workflow_json, spec_loads, idx, loaded, initdata, engine,
                   engine_initdata, published, exc, raised>>

\* cap_backend = setupbackend_fromstring("fromenv"), before the try.
SetupBackend ==
    /\ pc = "backend"
    /\ \E outcome \in Outcomes :
         IF outcome = "ok"
         THEN cap_backend' = TRUE /\ pc' = "publisher" /\ UNCHANGED raised
         ELSE /\ raised' = BackendError
              /\ pc' = "done"
              /\ UNCHANGED cap_backend
    /\ UNCHANGED <<argv, fs, todo, ctx_params, environ, umask_set, publisher,
                   workflow_json, spec_loads, idx, loaded, initdata, engine,
                   engine_initdata, published, logged, exc>>

\* publisher = REANAWorkflowStatusPublisher(), before the try.
ConstructPublisher ==
    /\ pc = "publisher"
    /\ \E outcome \in Outcomes :
         IF outcome = "ok"
         THEN publisher' = "ok" /\ pc' = "check_file" /\ UNCHANGED raised
         ELSE /\ raised' = PublisherError
              /\ pc' = "done"
              /\ UNCHANGED publisher
    /\ UNCHANGED <<argv, fs, todo, ctx_params, environ, umask_set, cap_backend,
                   workflow_json, spec_loads, idx, loaded, initdata, engine,
                   engine_initdata, published, logged, exc>>

MissingFileMessage(workflow_file) ==
    <<"Workflow file ">> \o workflow_file \o <<" does not exist">>

\* (variant: the existence of the workflow file is not checked)
CheckWorkflowFileSkipped ==
    /\ pc = "check_file"
    /\ pc' = "load_spec"
    /\ UNCHANGED <<argv, fs, todo, ctx_params, environ, umask_set, cap_backend,
                   publisher, workflow_json, spec_loads, idx, loaded, initdata,
                   engine, engine_initdata, published, logged, exc, raised>>

\* if not os.path.exists(workflow_file_abs_path): raise Exception(message)
CheckWorkflowFile ==
    /\ pc = "check_file"
    /\ IF PathJoin(RunWorkspace, argv.workflow_file) \notin fs
       THEN exc' = MissingFileMessage(argv.workflow_file) /\ pc' = "except"
       ELSE pc' = "load_spec" /\ UNCHANGED exc
    /\ UNCHANGED <<argv, fs, todo, ctx_params, environ, umask_set, cap_backend,
                   publisher, workflow_json, spec_loads, idx, loaded, initdata, engine,
                   engine_initdata, published, logged, raised>>

\* workflow_json = yadageschemas.load(...): loads and validates, or raises.
LoadSpec ==
    /\ pc = "load_spec"
    /\ spec_loads' = Append(spec_loads,
            [spec |-> argv.workflow_file,
             toplevel |-> ctx_params.operational_options.toplevel])
    /\ \E outcome \in Outcomes :
         IF outcome = "ok"
         THEN workflow_json' = TRUE /\ pc' = "merge_files" /\ UNCHANGED exc
         ELSE /\ exc' = SpecError
              /\ pc' = "except"
              /\ UNCHANGED workflow_json
    /\ UNCHANGED <<argv, fs, todo, ctx_params, environ, umask_set, cap_backend,
                   publisher, idx, loaded, initdata, engine, engine_initdata,
                   published, logged, raised>>

\* One turn of: for initfile in operational_options["initfiles"]:
\*                  initdata.update(**yaml.safe_load(open(initfile)))
LoadInitFile ==
    /\ pc = "merge_files"
    /\ idx <= Len(ctx_params.operational_options.initfiles)
    /\ \E r \in FileReads :
         IF FileReadError(r) # NoError
         THEN /\ exc' = FileReadError(r)
              /\ pc' = "except"
              /\ UNCHANGED <<idx, loaded, initdata>>
         ELSE /\ initdata' = DictUpdate(initdata, r.d)
              /\ loaded' = Append(loaded,
                     [path |-> ctx_params.operational_options.initfiles[idx],
                      d |-> r.d])
              /\ idx' = idx + 1
              /\ UNCHANGED <<pc, exc>>
    /\ UNCHANGED <<argv, fs, todo, ctx_params, environ, umask_set, cap_backend,
                   publisher, workflow_json, spec_loads, engine, engine_initdata,
                   published, logged, raised>>

\* After the loop: initdata.update(workflow_parameters).
MergeParameters ==
    /\ pc = "merge_files"
    /\ idx > Len(ctx_params.operational_options.initfiles)
    /\ IF ~ctx_params.workflow_parameters.isdict
       THEN /\ exc' = ParametersError
            /\ pc' = "except"
            /\ UNCHANGED initdata
       ELSE /\ initdata' = DictUpdate(initdata, ctx_params.workflow_parameters.d)
            /\ pc' = "check_conn"
            /\ UNCHANGED exc
    /\ UNCHANGED <<argv, fs, todo, ctx_params, environ, umask_set, cap_backend,
                   publisher, workflow_json, spec_loads, idx, loaded, engine,
                   engine_initdata, published, logged, raised>>

\* (variant: the result of the connectivity check is ignored)
CheckConnectionIgnored ==
    /\ pc = "check_conn"
    /\ \E outcome \in Outcomes :
         IF outcome = "ok"
         THEN UNCHANGED exc
         ELSE exc' = ConnectionError
    /\ pc' = "ctx_enter"
    /\ UNCHANGED <<argv, fs, todo, ctx_params, environ, umask_set, cap_backend,
                   publisher, workflow_json, spec_loads, idx, loaded, initdata,
                   engine, engine_initdata, published, logged, raised>>

\* check_connection_to_job_controller()
CheckConnection ==
    /\ pc = "check_conn"
    /\ \E outcome \in Outcomes :
         IF outcome = "ok"
         THEN pc' = "ctx_enter" /\ UNCHANGED exc
         ELSE exc' = ConnectionError /\ pc' = "except"
    /\ UNCHANGED <<argv, fs, todo, ctx_params, environ, umask_set, cap_backend,
                   publisher, workflow_json, spec_loads, idx, loaded, initdata, engine,
                   engine_initdata, published, logged, raised>>

\* with steering_ctx(dataarg=..., initdata=initdata, ...) as ys:
EnterSteeringCtx ==
    /\ pc = "ctx_enter"
    /\ \E outcome \in Outcomes :
         IF outcome = "ok"
         THEN /\ engine' = Append(engine, "enter")
              /\ engine_initdata' = initdata
              /\ pc' = "pub_running"
              /\ UNCHANGED exc
         ELSE /\ engine' = Append(engine, "enter_raised")
              /\ exc' = EnterError
              /\ pc' = "except"
              /\ UNCHANGED engine_initdata
    /\ UNCHANGED <<argv, fs, todo, ctx_params, environ, umask_set, cap_backend,
                   publisher, workflow_json, spec_loads, idx, loaded, initdata, published,
                   logged, raised>>

\* log.info("running workflow on context ..."), then
\* publisher.publish_workflow_status(workflow_uuid, 1) inside the with block:
\* an exception of the call leaves the block and reaches the except clause.
PublishRunning ==
    /\ pc = "pub_running"
    /\ logged' = Append(logged, LogRecord("info", <<"running workflow on context">>))
    /\ \E outcome \in Outcomes :
         /\ published' = Append(published, StatusCall(RUNNING, <<>>, outcome))
         /\ IF outcome = "ok"
            THEN pc' = "adage" /\ UNCHANGED <<exc, engine>>
            ELSE /\ engine' = Append(engine, "exit_on_error")
                 /\ exc' = PublishError
                 /\ pc' = "except"
    /\ UNCHANGED <<argv, fs, todo, ctx_params, environ, umask_set, cap_backend,
                   publisher, workflow_json, spec_loads, idx, loaded, initdata,
                   engine_initdata, raised>>

\* (variant: an exception of adage_argument is swallowed)
AdageArgumentSwallowed ==
    /\ pc = "adage"
    /\ \E outcome \in Outcomes :
         IF outcome = "ok"
         THEN engine' = Append(engine, "adage")
         ELSE engine' = Append(engine, "adage_raised")
    /\ pc' = "ctx_exit"
    /\ UNCHANGED <<argv, fs, todo, ctx_params, environ, umask_set, cap_backend,
                   publisher, workflow_json, spec_loads, idx, loaded, initdata,
                   engine_initdata, published, logged, exc, raised>>

\* ys.adage_argument(additional_trackers=[REANATracker(...)])
AdageArgument ==
    /\ pc = "adage"
    /\ \E outcome \in Outcomes :
         IF outcome = "ok"
         THEN /\ engine' = Append(engine, "adage")
              /\ pc' = "ctx_exit"
              /\ UNCHANGED exc
         ELSE /\ engine' = Append(engine, "adage_raised")
              /\ exc' = AdageError
              /\ pc' = "except"
    /\ UNCHANGED <<argv, fs, todo, ctx_params, environ, umask_set, cap_backend,
                   publisher, workflow_json, spec_loads, idx, loaded, initdata,
                   engine_initdata, published, logged, raised>>

\* (variant: the context manager suppresses the exception of its exit)
ExitSteeringCtxSuppresses ==
    /\ pc = "ctx_exit"
    /\ \E outcome \in Outcomes :
         IF outcome = "ok"
         THEN /\ engine' = Append(engine, "exit")
              /\ UNCHANGED exc
         ELSE /\ engine' = Append(engine, "exit_raised")
              /\ exc' = ExitError
    /\ pc' = "pub_finished"
    /\ UNCHANGED <<argv, fs, todo, ctx_params, environ, umask_set, cap_backend,
                   publisher, workflow_json, spec_loads, idx, loaded, initdata,
                   engine_initdata, published, logged, raised>>

\* The end of the with block: the steering context runs the workflow and
\* returns, or raises.
ExitSteeringCtx ==
    /\ pc = "ctx_exit"
    /\ \E outcome \in Outcomes :
         IF outcome = "ok"
         THEN /\ engine' = Append(engine, "exit")
              /\ pc' = "pub_finished"
              /\ UNCHANGED exc
         ELSE /\ engine' = Append(engine, "exit_raised")
              /\ exc' = ExitError
              /\ pc' = "except"
    /\ UNCHANGED <<argv, fs, todo, ctx_params, environ, umask_set, cap_backend,
                   publisher, workflow_json, spec_loads, idx, loaded, initdata,
                   engine_initdata, published, logged, raised>>

\* publisher.publish_workflow_status(workflow_uuid, 2), then log.info(...);
\* the call is inside the try: its exception reaches the except clause.
PublishFinished ==
    /\ pc = "pub_finished"
    /\ \E outcome \in Outcomes :
         /\ published' = Append(published, StatusCall(FINISHED, <<>>, outcome))
         /\ IF outcome = "ok"
            THEN /\ logged' = Append(logged,
                         LogRecord("info", <<"Workflow ">> \o argv.workflow_uuid
                                           \o <<" finished">>))
                 /\ pc' = "done"
                 /\ UNCHANGED exc
            ELSE /\ exc' = PublishError
                 /\ pc' = "except"
                 /\ UNCHANGED logged
    /\ UNCHANGED <<argv, fs, todo, ctx_params, environ, umask_set, cap_backend,
                   publisher, workflow_json, spec_loads, idx, loaded, initdata, engine,
                   engine_initdata, raised>>

\* (variant: the test of the publisher is inverted)
HandleExceptionInverted ==
    /\ pc = "except"
    /\ IF publisher # "ok"
       THEN /\ logged' = Append(logged,
                    LogRecord("error", <<"Workflow failed: ">> \o exc))
            /\ \E outcome \in Outcomes :
                 /\ published' = Append(published,
                        StatusCall(FAILED, <<"workflow failed: ">> \o exc, outcome))
                 /\ IF outcome = "ok"
                    THEN UNCHANGED raised
                    ELSE raised' = PublishError
       ELSE /\ logged' = logged \o
                    <<LogRecord("error", <<"Workflow failed: ">> \o exc),
                      LogRecord("error", <<"Workflow ">> \o argv.workflow_uuid \o
                          <<" failed but status could not be published.">>)>>
            /\ UNCHANGED <<published, raised>>
    /\ pc' = "done"
    /\ UNCHANGED <<argv, fs, todo, ctx_params, environ, umask_set, cap_backend,
                   publisher, workflow_json, spec_loads, idx, loaded, initdata, engine,
                   engine_initdata, exc>>

\* (variant: the FAILED status carries no error message)
HandleExceptionNoMessage ==
    /\ pc = "except"
    /\ logged' = Append(logged, LogRecord("error", <<"Workflow failed: ">> \o exc))
    /\ \E outcome \in Outcomes :
         /\ published' = Append(published,
                StatusCall(FAILED, <<"workflow failed">>, outcome))
         /\ IF outcome = "ok"
            THEN UNCHANGED raised
            ELSE raised' = PublishError
    /\ pc' = "done"
    /\ UNCHANGED <<argv, fs, todo, ctx_params, environ, umask_set, cap_backend,
                   publisher, workflow_json, spec_loads, idx, loaded, initdata, engine,
                   engine_initdata, exc>>

\* except Exception as e: log the error; publish FAILED when the publisher
\* is truthy, else log that the status could not be published.  The publish
\* call is not guarded: its exception leaves run_yadage_workflow.
HandleException ==
    /\ pc = "except"
    /\ IF publisher = "ok"
       THEN /\ logged' = Append(logged,
                    LogRecord("error", <<"Workflow failed: ">> \o exc))
            /\ \E outcome \in Outcomes :
                 /\ published' = Append(published,
                        StatusCall(FAILED, <<"workflow failed: ">> \o exc, outcome))
                 /\ IF outcome = "ok"
                    THEN UNCHANGED raised
                    ELSE raised' = PublishError
       ELSE /\ logged' = logged \o
                    <<LogRecord("error", <<"Workflow failed: ">> \o exc),
                      LogRecord("error", <<"Workflow ">> \o argv.workflow_uuid \o
                          <<" failed but status could not be published.">>)>>
            /\ UNCHANGED <<published, raised>>
    /\ pc' = "done"
    /\ UNCHANGED <<argv, fs, todo, ctx_params, environ, umask_set, cap_backend,
                   publisher, workflow_json, spec_loads, idx, loaded, initdata, engine,
                   engine_initdata, exc>>

Next ==
    \/ ParseWorkflowWorkspace
    \/ ParseWorkflowParameters
    \/ ParseOperationalOptions
    \/ Invoke
    \/ SetRunContext
    \/ SetupBackend
    \/ ConstructPublisher
    \/ CheckWorkflowFile
    \/ LoadSpec
    \/ LoadInitFile
    \/ MergeParameters
    \/ CheckConnection
    \/ EnterSteeringCtx
    \/ PublishRunning
    \/ AdageArgument
    \/ ExitSteeringCtx
    \/ PublishFinished
    \/ HandleException

Spec == Init /\ [][Next]_vars


\* ---------------------------------------------------------------- claims
\* The states of the publish calls made so far, in order.
Statuses == [i \in 1..Len(published) |-> published[i].status]

Terminal == {FINISHED, FAILED}

\* t occurs in s as a contiguous part.
Contains(s, t) ==
    \E i \in 1..(Len(s) - Len(t) + 1) : SubSeq(s, i, i + Len(t) - 1) = t

\* The messages of the exceptions of the preparation steps.
PrepErrors ==
    {MissingFileMessage(argv.workflow_file), SpecError, ParametersError}
    \cup {FileReadError(r) : r \in {q \in FileReads : q.kind # "mapping"}}

EngineErrors == {EnterError, AdageError, ExitError}

\* The option value is given and load_json raises on it.
Malformed(value) ==
    value.given /\ (value.lead # 1 \/ value.payload.enc # "ok")

\* C1: on every exit path of run_yadage_workflow once the run has started,
\* whichever step raises, a terminal status publish call (FINISHED or FAILED)
\* is made before the function exits.
C1_TerminalStatusOnEveryExit ==
    (pc = "done" /\ umask_set) =>
        \E i \in 1..Len(published) : published[i].status \in Terminal

\* C2: in every run, publish calls that raise included, at most one terminal
\* publish call is made, RUNNING is published at most once, and RUNNING never
\* follows a terminal state.
C2_AtMostOneTerminalCall ==
    /\ Cardinality({i \in 1..Len(published) : published[i].status \in Terminal}) <= 1
    /\ Cardinality({i \in 1..Len(published) : published[i].status = RUNNING}) <= 1
    /\ \A i, j \in 1..Len(published) :
         (i < j /\ published[i].status \in Terminal) => published[j].status # RUNNING

\* C3: when preparation succeeds and the engine returns normally, the
\* published statuses of the finished run are exactly [RUNNING, FINISHED].
C3_SuccessSequence ==
    (pc = "done" /\ engine = <<"enter", "adage", "exit">>) =>
        Statuses = <<RUNNING, FINISHED>>

\* C4: when a preparation step fails inside the run (workflow file missing,
\* spec loading raises, an init file is missing or unparsable, merging the
\* parameters raises), the engine is never invoked, RUNNING is never
\* published, and the finished run has published exactly [FAILED].
C4_PreparationFailure ==
    exc \in PrepErrors =>
        /\ engine = <<>>
        /\ \A i \in 1..Len(published) : published[i].status # RUNNING
        /\ pc = "done" => Statuses = <<FAILED>>

C4_Witness ==
    /\ pc = "done"
    /\ exc \in {FileReadError(r) : r \in {q \in FileReads : q.kind = "unparsable"}}
    /\ Len(loaded) = 1
    /\ workflow_json
    /\ Statuses = <<FAILED>>

\* C5 as stated: whenever the engine raises (entering the steering context,
\* running adage_argument, leaving the steering context), the published
\* statuses of the finished run are exactly [RUNNING, FAILED].
C5_EngineFailureSequence ==
    (pc = "done" /\ exc \in EngineErrors) => Statuses = <<RUNNING, FAILED>>

\* C5 amended: when adage_argument or the exit of the steering context
\* raises, the published statuses of the finished run are exactly
\* [RUNNING, FAILED]; when entering the steering context raises, RUNNING was
\* not published yet and they are exactly [FAILED].
C5_EngineFailureAmended ==
    pc = "done" =>
        /\ exc \in {AdageError, ExitError} => Statuses = <<RUNNING, FAILED>>
        /\ exc = EnterError => Statuses = <<FAILED>>

C5_Witness ==
    /\ pc = "done"
    /\ exc = ExitError
    /\ engine = <<"enter", "adage", "exit_raised">>
    /\ Statuses = <<RUNNING, FAILED>>

\* C6: a publish call that raises, at any of the three call sites, never
\* raises out of run_yadage_workflow.
C6_PublishFailureContained ==
    (pc = "done" /\ \E i \in 1..Len(published) : published[i].raised) =>
        raised = NoError

\* C7: when the construction of the publisher failed, the run logs that the
\* terminal status could not be reported and run_yadage_workflow does not
\* raise.
C7_PublisherUnavailable ==
    (pc = "done" /\ cap_backend /\ publisher = "unbound") =>
        /\ raised = NoError
        /\ \E i \in 1..Len(logged) :
             /\ logged[i].level = "error"
             /\ Contains(logged[i].text,
                         <<" failed but status could not be published.">>)

\* C8: an error raised by the workflow-file check, spec loading, init-data
\* merge, connectivity check or the engine is caught in run_yadage_workflow:
\* the finished run has made exactly one FAILED call, its logs contain the
\* error's message, and that error does not leave run_yadage_workflow.
C8_ErrorsBecomeFailed ==
    (pc = "done" /\ exc \in PrepErrors \cup {ConnectionError} \cup EngineErrors) =>
        /\ Cardinality({i \in 1..Len(published) : published[i].status = FAILED}) = 1
        /\ \A i \in 1..Len(published) :
             published[i].status = FAILED => Contains(published[i].logs, exc)
        /\ raised # exc

C8_Witness ==
    /\ pc = "done"
    /\ exc = ConnectionError
    /\ raised = NoError
    /\ \E i \in 1..Len(published) :
         /\ published[i].status = FAILED
         /\ Contains(published[i].logs, ConnectionError)

\* C9: when the encoded workflow parameters or operational options are
\* malformed and decoding them raises, the published statuses of the
\* finished invocation are exactly [FAILED].
C9_DecodeErrorSequence ==
    (/\ pc = "done"
     /\ \/ Malformed(argv.workflow_parameters)
           /\ raised = LoadJsonError(argv.workflow_parameters)
        \/ Malformed(argv.operational_options)
           /\ raised = LoadJsonError(argv.operational_options))
    => Statuses = <<FAILED>>

\* The files read so far that define key k.
FilesWith(k) == {i \in 1..Len(loaded) : k \in DOMAIN loaded[i].d}
Last(S) == CHOOSE i \in S : \A j \in S : j <= i

\* C10: the initdata the engine is given has, for every key, the value of
\* the workflow parameters when they define the key, and else the value of
\* the last init file in list order that defines it; the init files are
\* read in the order of the initfiles list.
C10_MergePrecedence ==
    engine # <<>> /\ Head(engine) = "enter" =>
        LET wp == ctx_params.workflow_parameters.d
            initfiles == ctx_params.operational_options.initfiles IN
        /\ Len(loaded) = Len(initfiles)
        /\ \A i \in 1..Len(loaded) : loaded[i].path = initfiles[i]
        /\ DOMAIN engine_initdata =
               DOMAIN wp \cup {k \in Keys : FilesWith(k) # {}}
        /\ \A k \in DOMAIN engine_initdata :
               engine_initdata[k] =
                   IF k \in DOMAIN wp THEN wp[k]
                   ELSE loaded[Last(FilesWith(k))].d[k]

C10_Witness ==
    /\ engine # <<>> /\ Head(engine) = "enter"
    /\ Len(loaded) = 2
    /\ "y" \in DOMAIN loaded[1].d /\ "y" \in DOMAIN loaded[2].d
    /\ loaded[1].d["y"] # loaded[2].d["y"]
    /\ "x" \in DOMAIN loaded[2].d
    /\ "x" \in DOMAIN ctx_params.workflow_parameters.d
    /\ loaded[2].d["x"] # ctx_params.workflow_parameters.d["x"]
    /\ engine_initdata =
           [x |-> ctx_params.workflow_parameters.d["x"], y |-> loaded[2].d["y"]]


\* The decoded operational options, before the callback resolves them, as
\* the callback reads them with dict.get.
RawOptions ==
    LET o == LoadJson(argv.operational_options).obj IN
    [toplevel |-> OptGet(o, "toplevel", o.toplevel, <<>>),
     initdir |-> OptGet(o, "initdir", o.initdir, <<>>),
     initfiles |-> OptGet(o, "initfiles", o.initfiles, <<>>)]

\* The callback of --operational-options has returned.
OptionsResolved == "toplevel" \in ctx_params.operational_options.keys

\* The workspace root of the run (line 98).
RunRoot == WorkspacePath(TRUE, argv.workflow_workspace)

IsAbsolute(path) == StartsWith(path, <<"/">>)

EndsWith(s, t) ==
    Len(s) >= Len(t) /\ SubSeq(s, Len(s) - Len(t) + 1, Len(s)) = t

\* C11: the callback returns toplevel, initdir and every initfiles entry as
\* paths prefixed by the run's workspace root, whatever the option values
\* are (absolute paths and parent-directory segments included), except a
\* toplevel with the remote prefix, which is unchanged; the order of
\* initfiles is kept.  Stated for the runs whose resolved initdir is the
\* join of the run's workspace root and the option value.
C11_PathsUnderWorkspace ==
    (/\ OptionsResolved
     /\ ctx_params.operational_options.initdir =
            PathJoin(RunRoot, RawOptions.initdir))
    => LET o == ctx_params.operational_options IN
       /\ IF StartsWith(RawOptions.toplevel, REMOTE_PREFIX)
          THEN o.toplevel = RawOptions.toplevel
          ELSE StartsWith(o.toplevel, RunRoot)
       /\ StartsWith(o.initdir, RunRoot)
       /\ Len(o.initfiles) = Len(RawOptions.initfiles)
       /\ \A i \in 1..Len(o.initfiles) :
            /\ StartsWith(o.initfiles[i], RunRoot)
            /\ EndsWith(o.initfiles[i], RawOptions.initfiles[i])

\* C12: resolving options whose toplevel, initdir and initfiles are already
\* absolute (or whose toplevel is a remote reference) once more leaves them
\* unchanged: no second workspace prefix is put in front.
C12_ResolutionIdempotent ==
    LET o == ctx_params.operational_options IN
    (/\ OptionsResolved
     /\ IsAbsolute(o.toplevel) \/ StartsWith(o.toplevel, REMOTE_PREFIX)
     /\ IsAbsolute(o.initdir)
     /\ \A i \in 1..Len(o.initfiles) : IsAbsolute(o.initfiles[i]))
    => ResolveOptions(TRUE, argv.workflow_workspace, o) = o

C12_Witness ==
    LET o == ctx_params.operational_options IN
    /\ OptionsResolved
    /\ Len(o.initfiles) = 2
    /\ ~IsAbsolute(RawOptions.initfiles[1])
    /\ o.initfiles[1] = RunRoot \o <<"/">> \o RawOptions.initfiles[1]
    /\ IsAbsolute(o.initdir) /\ IsAbsolute(o.toplevel)


\* The workflow file does not exist at its path under the run's workspace.
WorkflowFileMissing == PathJoin(RunRoot, argv.workflow_file) \notin fs

\* C13: when the workflow file does not exist at its workspace-resolved
\* path, the run fails at the existence check: the spec loader is never
\* called, RUNNING is never published, and the finished run has made exactly
\* one publish call, FAILED, whose logs name the missing workflow file.
C13_MissingWorkflowFile ==
    (WorkflowFileMissing /\ publisher = "ok") =>
        /\ spec_loads = <<>>
        /\ ~workflow_json
        /\ \A i \in 1..Len(published) : published[i].status # RUNNING
        /\ pc = "done" =>
             /\ Statuses = <<FAILED>>
             /\ Contains(published[1].logs, argv.workflow_file)

C13_Witness ==
    /\ WorkflowFileMissing
    /\ pc = "done"
    /\ exc = MissingFileMessage(argv.workflow_file)
    /\ Statuses = <<FAILED>>
    /\ published[1].logs =
           <<"workflow failed: ", "Workflow file ">> \o argv.workflow_file
               \o <<" does not exist">>

\* C14: when toplevel is a remote reference, the absence of the workflow
\* file in the local workspace does not by itself fail the run: the
\* existence check passes and the spec loader is called.
C14_RemoteSpecNotCheckedLocally ==
    (/\ pc = "done"
     /\ publisher = "ok"
     /\ WorkflowFileMissing
     /\ StartsWith(ctx_params.operational_options.toplevel, REMOTE_PREFIX))
    => /\ spec_loads # <<>>
       /\ exc # MissingFileMessage(argv.workflow_file)


\* C15 as stated: when the job controller is unreachable the run fails
\* before any side effect: the run context and umask are not set, backend
\* and publisher are not constructed, the spec is not loaded, no init file
\* is read and no status is published.
C15_ConnectivityCheckedFirst ==
    exc = ConnectionError =>
        /\ environ = {} /\ ~umask_set
        /\ ~cap_backend /\ publisher = "unbound"
        /\ spec_loads = <<>> /\ loaded = <<>>
        /\ published = <<>>

\* C15 amended: the connectivity check is the last step before the engine:
\* when the job controller is unreachable, the run context, the umask, the
\* backend, the publisher, the spec and every init file were already set,
\* constructed, loaded and read, and the run fails before the steering
\* context is entered and before RUNNING is published; the finished run has
\* published exactly [FAILED].
C15_ConnectivityCheckedBeforeEngine ==
    exc = ConnectionError =>
        /\ environ = {"workflow_uuid", "workflow_workspace"} /\ umask_set
        /\ cap_backend /\ publisher = "ok"
        /\ Len(spec_loads) = 1 /\ workflow_json
        /\ Len(loaded) = Len(ctx_params.operational_options.initfiles)
        /\ engine = <<>>
        /\ \A i \in 1..Len(published) : published[i].status # RUNNING
        /\ pc = "done" => Statuses = <<FAILED>>

C15_Witness ==
    /\ pc = "done"
    /\ exc = ConnectionError
    /\ Len(loaded) = 2
    /\ engine = <<>>
    /\ Statuses = <<FAILED>>

\* The option is absent from the command line, or its value decodes to a
\* JSON object.
AbsentOrValid(value) ==
    \/ ~value.given
    \/ value.lead = 1 /\ value.payload.enc = "ok" /\ value.payload.isdict

\* C16: a run started without --workflow-parameters and/or without
\* --operational-options (the options given being well formed) still
\* reaches the body of run_yadage_workflow and goes through preparation.
C16_OptionsAreOptional ==
    (/\ pc = "done"
     /\ AbsentOrValid(argv.workflow_parameters)
     /\ AbsentOrValid(argv.operational_options)
     /\ ~argv.workflow_parameters.given \/ ~argv.operational_options.given)
    => /\ umask_set
       /\ raised # <<"'NoneType' object is not subscriptable">>

\* C17: a malformed encoded payload of --workflow-parameters or
\* --operational-options ends the invocation in the option callback: the
\* body of run_yadage_workflow never starts (no run context, no umask, no
\* backend or publisher, no file checked or read, no spec loaded, no engine,
\* no status published), and the finished invocation has raised.
C17_MalformedPayloadFailsFast ==
    (Malformed(argv.workflow_parameters) \/ Malformed(argv.operational_options))
    => /\ pc \in {"parse", "done"}
       /\ environ = {} /\ ~umask_set
       /\ ~cap_backend /\ publisher = "unbound"
       /\ spec_loads = <<>> /\ loaded = <<>> /\ engine = <<>>
       /\ published = <<>>
       /\ pc = "done" => raised # NoError

C17_Witness ==
    /\ pc = "done"
    /\ Malformed(argv.workflow_parameters)
    /\ argv.workflow_parameters.payload.enc = "bad_json"
    /\ ~Malformed(argv.operational_options)
    /\ raised = <<"Expecting value">>
    /\ ctx_params.has_ws
    /\ ~umask_set

\* C18: FINISHED is published only after RUNNING was published and both
\* adage_argument and the exit of the steering context completed without
\* raising; a run in which the engine raises never publishes FINISHED.
C18_FinishedOnlyAfterEngine ==
    /\ \A i \in 1..Len(published) :
         published[i].status = FINISHED =>
            /\ i = 2
            /\ published[1].status = RUNNING /\ ~published[1].raised
            /\ engine = <<"enter", "adage", "exit">>
    /\ exc \in EngineErrors =>
         \A i \in 1..Len(published) : published[i].status # FINISHED

C18_Witness ==
    /\ pc = "done"
    /\ engine = <<"enter", "adage", "exit">>
    /\ Statuses = <<RUNNING, FINISHED>>
    /\ raised = NoError

\* C19: the callback of --operational-options resolves toplevel, initdir
\* and initfiles against the workspace root of the run, whatever the order
\* in which click processes --workflow-workspace and --operational-options.
C19_SameWorkspaceRoot ==
    OptionsResolved =>
        ctx_params.operational_options =
            ResolveOptions(TRUE, argv.workflow_workspace,
                           LoadJson(argv.operational_options).obj)

====
